---- MODULE Spec2Model ----
(***************************************************************************)
(* Model of app.py: the POST /process handler (process_data), the          *)
(* extraction adapter (extract_candidate_data) and the audit sink          *)
(* (log_to_logflare), together with the two MongoDB collections.           *)
(*                                                                         *)
(* Strings are sequences of chunks; the string is the concatenation of its *)
(* chunks.  The chunk alphabet is uniquely decodable, every chunk is       *)
(* either wholly made of the characters a strip() call removes or begins   *)
(* and ends with a character it keeps, and the marker phrase and the reply *)
(* prefix are chunks of their own, so strip, lower, `in`, startswith and   *)
(* string equality act on chunks exactly as Python acts on characters.     *)
(***************************************************************************)
EXTENDS Integers, Sequences, FiniteSets, TLC

\* ---------------------------------------------------------------- bounds
\* Requests begun in one behaviour of Spec, and items submitted in them.
MaxRequests == 2
MaxItems == 2
\* Items submitted in one behaviour of SpecConc (two concurrent workers).
MaxConcItems == 2

Workers == {1, 2}
SeqWorkers == {1}

\* ---------------------------------------------------------------- strings
Whitespace == {" ", "\n"}
\* Three backquotes, the code-fence marker (a backquote cannot be written in a
\* TLA+ string).
Fence == "<fence>"
\* The characters of the first strip's argument (line 88: fence, json, newline),
\* as the chunks made only of them.
FenceJsonChars == {Fence, "json", "\n"}
\* The characters of the second strip's argument (line 88: fence).
FenceChars == {Fence}

MarkerPhrase == "interview support"
ReplyPrefix == "re:"

\* str.lower() on one chunk.
LowerChunk(c) ==
    CASE c = "RE:" -> "re:"
      [] c = "Interview Support" -> "interview support"
      [] c = "Follow Up" -> "follow up"
      [] OTHER -> c

Lower(s) == [i \in DOMAIN s |-> LowerChunk(s[i])]

SetMin(S) == CHOOSE x \in S : \A y \in S : x <= y
SetMax(S) == CHOOSE x \in S : \A y \in S : y <= x

\* str.strip(chars): drop the leading and trailing characters that are in chars.
Strip(s, chars) ==
    LET keep == {i \in DOMAIN s : s[i] \notin chars}
    IN  IF keep = {} THEN <<>> ELSE SubSeq(s, SetMin(keep), SetMax(keep))

\* `phrase in s`
Contains(s, phrase) == \E i \in DOMAIN s : s[i] = phrase

\* s.startswith(prefix)
StartsWith(s, prefix) == Len(s) > 0 /\ s[1] = prefix

\* ---------------------------------------------------------------- dicts
\* dict.get(key, default)
Get(d, k, default) == IF k \in DOMAIN d THEN d[k] ELSE default

\* {**item, **candidate_data}, mutated: the inbound record wins.
MergeItemWins(item, extracted) ==
    [k \in (DOMAIN item) \cup (DOMAIN extracted) |->
        IF k \in DOMAIN item THEN item[k] ELSE extracted[k]]

\* {**item, **candidate_data} (line 162): later keys overwrite earlier ones.
Merge(item, extracted) ==
    [k \in (DOMAIN item) \cup (DOMAIN extracted) |->
        IF k \in DOMAIN extracted THEN extracted[k] ELSE item[k]]

\* d[k] = v on a dict
Put(d, k, v) == [x \in (DOMAIN d) \cup {k} |-> IF x = k THEN v ELSE d[x]]

\* ---------------------------------------------------------------- inputs
SubjLower == <<"interview support">>
SubjUpper == <<"Interview Support">>
SubjReply == <<" ", "RE:", " ", "Interview Support">>
SubjPadded == <<"interview support", " ">>

\* The inbound records a request may carry.
Items == <<
    [id |-> "1", subject |-> SubjLower, body |-> "mail"],
    [id |-> "2", subject |-> SubjUpper, body |-> "mail"],
    [subject |-> SubjReply, body |-> "mail"],
    [_id |-> "k4", id |-> "4", subject |-> SubjPadded, body |-> "mail"] >>

\* The mappings the extraction service may answer with.
ExtractedPlain == [name |-> "JANE DOE"]
ExtractedClash == [name |-> "JANE DOE", id |-> "9", subject |-> <<"Follow Up">>]

\* The response texts of the extraction service (response.output[0].content[0].text).
Responses == <<
    <<Fence, "json", "\n", "{plain}", "\n", Fence>>,
    <<"{clash}">>,
    <<"[1]">>,
    <<"7">>,
    <<"Sure:", " ", "{plain}">>,
    <<" ", Fence, "json", "\n", "{plain}", Fence>> >>

\* ---------------------------------------------------------------- extraction
\* json.loads on the cleaned text: one JSON value and nothing else, or a
\* JSONDecodeError.
JsonLoads(clean) ==
    IF Len(clean) # 1 THEN [raised |-> TRUE]
    ELSE CASE clean[1] = "{plain}" -> [raised |-> FALSE, kind |-> "object", val |-> ExtractedPlain]
           [] clean[1] = "{clash}" -> [raised |-> FALSE, kind |-> "object", val |-> ExtractedClash]
           [] clean[1] = "[1]" -> [raised |-> FALSE, kind |-> "array"]
           [] clean[1] = "7" -> [raised |-> FALSE, kind |-> "number"]
           [] OTHER -> [raised |-> TRUE]

\* x.strip(fence-json-newline).strip(fence).strip() (line 88)
CleanText(x) == Strip(Strip(Strip(x, FenceJsonChars), FenceChars), Whitespace)

\* extract_candidate_data: the service call raises (outcome 0) or answers with
\* the text Responses[outcome]; the value json.loads gives is returned unchecked.
extract_candidate_data(outcome) ==
    IF outcome = 0 THEN [raised |-> TRUE]
    ELSE JsonLoads(CleanText(Responses[outcome]))

Outcomes == 0..Len(Responses)

\* ---------------------------------------------------------------- store, sink
\* The value insert_one generates for a document without _id; json cannot
\* serialise it.
ObjectId == "ObjectId()"

\* collection.find_one({'subject': subject}) finds a document: equality on the field.
FindOne(coll, subj) ==
    \E i \in DOMAIN coll : "subject" \in DOMAIN coll[i] /\ coll[i]["subject"] = subj

\* insert_one: the document as stored, with a generated _id when it has none.
WithId(doc) == IF "_id" \in DOMAIN doc THEN doc ELSE Put(doc, "_id", ObjectId)

\* Mutant: an insert-if-absent on the subject.
InsertIfAbsent(coll, doc) ==
    IF FindOne(coll, Get(doc, "subject", <<>>)) THEN coll ELSE Append(coll, WithId(doc))

\* collection.insert_one(final_data) (lines 169, 173): the collection afterwards.
InsertOne(coll, doc) == Append(coll, WithId(doc))

\* insert_one raises DuplicateKeyError on a caller-given _id the collection holds.
DuplicateKey(coll, doc) ==
    /\ "_id" \in DOMAIN doc
    /\ \E i \in DOMAIN coll : coll[i]["_id"] = doc["_id"]

\* requests.post(json=...) can serialise the payload.
Serialisable(payload) == ~("_id" \in DOMAIN payload /\ payload["_id"] = ObjectId)

\* datetime.utcnow().isoformat() + "Z"
Now == "ts"

\* log_to_logflare (lines 104-122): the payload sent, timestamp added when absent.
LogPayload(log_data) ==
    IF "log_timestamp" \in DOMAIN log_data THEN log_data
    ELSE Put(log_data, "log_timestamp", Now)

\* ---------------------------------------------------------------- classification
\* item.get('subject', '').strip().lower() (line 142)
NormSubject(item) == Lower(Strip(Get(item, "subject", <<>>), Whitespace))

\* Mutant: the reply prefix is not looked at.
DestinationNoReplyCheck(subj) ==
    IF Contains(subj, MarkerPhrase) THEN "taskBody" ELSE "repliesBody"

\* Lines 167-173: the collection the record is inserted into, from the
\* normalised subject.
Destination(subj) ==
    IF Contains(subj, MarkerPhrase) /\ ~StartsWith(subj, ReplyPrefix)
    THEN "taskBody" ELSE "repliesBody"

\* ---------------------------------------------------------------- request payload
\* request.get_json(): no body (None), a JSON array of records, or a JSON object.
NoBody == [kind |-> "none"]
ListOf(items) == [kind |-> "list", val |-> items]
Bare(obj) == [kind |-> "dict", val |-> obj]

\* Mutant: only an absent body is rejected (`if data is None`).
NotDataNoneOnly(d) == d.kind = "none"

\* `not data` (line 137)
NotData(d) ==
    \/ d.kind = "none"
    \/ d.kind = "list" /\ Len(d.val) = 0
    \/ d.kind = "dict" /\ DOMAIN d.val = {}

KeyOrder == <<"_id", "id", "subject", "body">>
InDomainOf(obj) == [k \in {"_id", "id", "subject", "body"} |-> k \in DOMAIN obj]
Keys(obj) == SelectSeq(KeyOrder, LAMBDA k : InDomainOf(obj)[k])

\* `for item in data` (line 140): a list yields its elements, a dict its keys.
Elems(d) ==
    IF d.kind = "list"
    THEN [i \in DOMAIN d.val |-> [kind |-> "dict", val |-> d.val[i]]]
    ELSE [i \in DOMAIN Keys(d.val) |-> [kind |-> "str", val |-> Keys(d.val)[i]]]

\* The number of records a payload submits.
Cost(d) == IF d.kind = "list" THEN Len(d.val) ELSE IF NotData(d) THEN 0 ELSE 1

\* ---------------------------------------------------------------- state
VARIABLES
    taskBody,        \* db['taskBody'], in insertion order
    repliesBody,     \* db['repliesBody'], in insertion order
    pc,              \* per worker: where its handler stands
    data,            \* per worker: request.get_json()
    idx,             \* per worker: position of the for loop
    item,            \* per worker: the loop variable
    item_id,
    subject,
    exists_in_task,
    candidate_data,
    final_data,
    collection_type,
    results,
    response,        \* per worker: the HTTP response of its request
    extractLog,      \* per worker: the extraction calls of this request
    insertLog,       \* per worker: the insert_one calls of this request
    audit,           \* per worker: the log_to_logflare calls of this request
    nreq,            \* requests begun
    quota,           \* requests the clients still send
    budget,          \* records still to be submitted
    reqno,           \* per worker: the number of its request
    accepted,        \* the records stored so far: the request, the subject as
                     \* submitted and the subject as stored
    tb0,             \* per worker: taskBody when its request began
    rb0              \* per worker: repliesBody when its request began

locals == <<item, item_id, subject, exists_in_task, candidate_data, final_data,
            collection_type>>
stores == <<taskBody, repliesBody>>
effects == <<extractLog, insertLog, audit>>
ghost == <<nreq, quota, budget, reqno, accepted, tb0, rb0>>
vars == <<taskBody, repliesBody, pc, data, idx, item, item_id, subject,
          exists_in_task, candidate_data, final_data, collection_type, results,
          response, extractLog, insertLog, audit, nreq, quota, budget, reqno,
          accepted, tb0, rb0>>

NoResponse == [code |-> 0]

InitWith(r, n) ==
    /\ taskBody = <<>>
    /\ repliesBody = <<>>
    /\ pc = [w \in Workers |-> "idle"]
    /\ data = [w \in Workers |-> NoBody]
    /\ idx = [w \in Workers |-> 0]
    /\ item = [w \in Workers |-> <<>>]
    /\ item_id = [w \in Workers |-> ""]
    /\ subject = [w \in Workers |-> <<>>]
    /\ exists_in_task = [w \in Workers |-> FALSE]
    /\ candidate_data = [w \in Workers |-> <<>>]
    /\ final_data = [w \in Workers |-> <<>>]
    /\ collection_type = [w \in Workers |-> ""]
    /\ results = [w \in Workers |-> <<>>]
    /\ response = [w \in Workers |-> NoResponse]
    /\ extractLog = [w \in Workers |-> <<>>]
    /\ insertLog = [w \in Workers |-> <<>>]
    /\ audit = [w \in Workers |-> <<>>]
    /\ nreq = 0
    /\ quota = r
    /\ budget = n
    /\ reqno = [w \in Workers |-> 0]
    /\ accepted = <<>>
    /\ tb0 = [w \in Workers |-> <<>>]
    /\ rb0 = [w \in Workers |-> <<>>]

Init == InitWith(MaxRequests, MaxItems)
\* One request for each of the two workers.
InitConc == InitWith(Cardinality(Workers), MaxConcItems)

\* The locals of a handler between two items (dead values are cleared).
ClearLocals(w) ==
    /\ item' = [item EXCEPT ![w] = <<>>]
    /\ item_id' = [item_id EXCEPT ![w] = ""]
    /\ subject' = [subject EXCEPT ![w] = <<>>]
    /\ exists_in_task' = [exists_in_task EXCEPT ![w] = FALSE]
    /\ candidate_data' = [candidate_data EXCEPT ![w] = <<>>]
    /\ final_data' = [final_data EXCEPT ![w] = <<>>]
    /\ collection_type' = [collection_type EXCEPT ![w] = ""]

\* `continue`, or the end of the loop body: on to the next item.
Continue(w) ==
    /\ idx' = [idx EXCEPT ![w] = @ + 1]
    /\ pc' = [pc EXCEPT ![w] = "loop"]
    /\ ClearLocals(w)

\* An exception no handler catches: the framework answers 500.
Crash(w) ==
    /\ response' = [response EXCEPT ![w] = [code |-> 500]]
    /\ pc' = [pc EXCEPT ![w] = "done"]
    /\ ClearLocals(w)
    /\ UNCHANGED idx

\* ---------------------------------------------------------------- process_data
\* Lines 135-138: a request arrives at an idle worker; an empty payload is
\* answered 400 at once.
Receive(w, d) ==
    /\ pc[w] \in {"idle", "done"}
    /\ quota > 0
    /\ Cost(d) <= budget
    /\ nreq' = nreq + 1
    /\ quota' = quota - 1
    /\ budget' = budget - Cost(d)
    /\ reqno' = [reqno EXCEPT ![w] = nreq + 1]
    /\ tb0' = [tb0 EXCEPT ![w] = taskBody]
    /\ rb0' = [rb0 EXCEPT ![w] = repliesBody]
    /\ data' = [data EXCEPT ![w] = d]
    /\ results' = [results EXCEPT ![w] = <<>>]
    /\ idx' = [idx EXCEPT ![w] = 1]
    /\ extractLog' = [extractLog EXCEPT ![w] = <<>>]
    /\ insertLog' = [insertLog EXCEPT ![w] = <<>>]
    /\ audit' = [audit EXCEPT ![w] = <<>>]
    /\ IF NotData(d)
       THEN /\ response' = [response EXCEPT ![w] =
                               [code |-> 400, body |-> [error |-> "No data provided"]]]
            /\ pc' = [pc EXCEPT ![w] = "done"]
       ELSE /\ response' = [response EXCEPT ![w] = NoResponse]
            /\ pc' = [pc EXCEPT ![w] = "loop"]
    /\ UNCHANGED <<stores, locals, accepted>>

\* Lines 140-142: the loop takes the next element; .get on an element that is
\* no mapping raises AttributeError, which nothing catches.
NextItem(w) ==
    /\ pc[w] = "loop"
    /\ idx[w] <= Len(Elems(data[w]))
    /\ LET e == Elems(data[w])[idx[w]]
       IN  IF e.kind = "dict"
           THEN /\ item' = [item EXCEPT ![w] = e.val]
                /\ item_id' = [item_id EXCEPT ![w] = Get(e.val, "id", "unknown")]
                /\ subject' = [subject EXCEPT ![w] = NormSubject(e.val)]
                /\ pc' = [pc EXCEPT ![w] = "find_task"]
                /\ UNCHANGED <<exists_in_task, candidate_data, final_data,
                               collection_type, response, idx>>
           ELSE Crash(w)
    /\ UNCHANGED <<stores, data, results, effects, ghost>>

\* Line 145: the lookup in taskBody.
FindTask(w) ==
    /\ pc[w] = "find_task"
    /\ exists_in_task' = [exists_in_task EXCEPT ![w] = FindOne(taskBody, subject[w])]
    /\ pc' = [pc EXCEPT ![w] = "find_replies"]
    /\ UNCHANGED <<stores, data, idx, item, item_id, subject, candidate_data,
                   final_data, collection_type, results, response, effects, ghost>>

\* Lines 146-151: the lookup in repliesBody, and the skip on a hit in either.
FindReplies(w) ==
    /\ pc[w] = "find_replies"
    /\ IF exists_in_task[w] \/ FindOne(repliesBody, subject[w])
       THEN /\ results' = [results EXCEPT ![w] = Append(@,
                   [id |-> item_id[w], status |-> "skipped",
                    message |-> "already processed"])]
            /\ Continue(w)
       ELSE /\ pc' = [pc EXCEPT ![w] = "extract"]
            /\ UNCHANGED <<results, idx, locals>>
    /\ UNCHANGED <<stores, data, response, effects, ghost>>

\* Lines 153-163: the extraction call, its failure caught as an error entry, and
\* the merge, whose TypeError on a value that is no mapping nothing catches.
Extract(w, outcome) ==
    /\ pc[w] = "extract"
    /\ LET r == extract_candidate_data(outcome)
       IN  /\ extractLog' = [extractLog EXCEPT ![w] = Append(@,
                   [pos |-> idx[w],
                    got |-> IF r.raised THEN "raised" ELSE r.kind])]
           /\ IF r.raised
              THEN /\ results' = [results EXCEPT ![w] = Append(@,
                          [id |-> item_id[w], status |-> "error",
                           message |-> "Extraction error"])]
                   /\ Continue(w)
                   /\ UNCHANGED response
              ELSE IF r.kind # "object"
              THEN /\ Crash(w)
                   /\ UNCHANGED results
              ELSE /\ candidate_data' = [candidate_data EXCEPT ![w] = r.val]
                   /\ final_data' = [final_data EXCEPT ![w] = Merge(item[w], r.val)]
                   /\ collection_type' = [collection_type EXCEPT ![w] = ""]
                   /\ pc' = [pc EXCEPT ![w] = "insert"]
                   /\ UNCHANGED <<item, item_id, subject, exists_in_task, results,
                                  response, idx>>
    /\ UNCHANGED <<stores, data, insertLog, audit, ghost>>

\* Lines 165-180: insert_one into the collection the subject selects; the store
\* answers (storeOk) or fails.  A failure is caught as an error entry and the
\* loop continues without logging.
Insert(w, storeOk) ==
    /\ pc[w] = "insert"
    /\ LET dest == Destination(subject[w])
           coll == IF dest = "taskBody" THEN taskBody ELSE repliesBody
           ok == storeOk /\ ~DuplicateKey(coll, final_data[w])
       IN  /\ insertLog' = [insertLog EXCEPT ![w] = Append(@,
                   [pos |-> idx[w], coll |-> dest, item |-> item[w], extracted |-> candidate_data[w],
                    doc |-> final_data[w], ok |-> ok])]
           /\ IF ok
              THEN /\ taskBody' = IF dest = "taskBody"
                                  THEN InsertOne(taskBody, final_data[w])
                                  ELSE taskBody
                   /\ repliesBody' = IF dest = "repliesBody"
                                     THEN InsertOne(repliesBody, final_data[w])
                                     ELSE repliesBody
                   /\ final_data' = [final_data EXCEPT ![w] = WithId(@)]
                   /\ collection_type' = [collection_type EXCEPT ![w] = dest]
                   /\ results' = [results EXCEPT ![w] = Append(@,
                          [id |-> item_id[w], status |-> "success",
                           collection |-> dest])]
                   /\ accepted' = Append(accepted,
                          [req |-> reqno[w],
                           subject |-> Get(item[w], "subject", <<>>),
                           stored |-> Get(final_data[w], "subject", <<>>)])
                   /\ pc' = [pc EXCEPT ![w] = "log"]
                   /\ UNCHANGED <<item, item_id, subject, exists_in_task,
                                  candidate_data, idx>>
              ELSE /\ results' = [results EXCEPT ![w] = Append(@,
                          [id |-> item_id[w], status |-> "error",
                           message |-> "Insertion error"])]
                   /\ Continue(w)
                   /\ UNCHANGED <<stores, accepted>>
    /\ UNCHANGED <<data, response, extractLog, audit, nreq, quota, budget, reqno,
                   tb0, rb0>>

\* Lines 182-191: the metadata, then log_to_logflare; its exception (the payload
\* cannot be serialised, or the sink fails) is caught as a warning entry.
Log(w, sinkOk) ==
    /\ pc[w] = "log"
    /\ LET log_data == Put(Put(final_data[w], "log_timestamp", Now),
                           "collection_type", collection_type[w])
           sent == Serialisable(LogPayload(log_data)) /\ sinkOk
       IN  /\ audit' = [audit EXCEPT ![w] = Append(@,
                   [payload |-> LogPayload(log_data), sent |-> sent])]
           /\ results' = [results EXCEPT ![w] =
                   IF sent THEN @
                   ELSE Append(@, [id |-> item_id[w], status |-> "warning",
                                   message |-> "Logging error"])]
    /\ Continue(w)
    /\ UNCHANGED <<stores, data, response, extractLog, insertLog, ghost>>

\* Lines 193-194: the loop is over; the 200 response carries the results.
Finish(w) ==
    /\ pc[w] = "loop"
    /\ idx[w] > Len(Elems(data[w]))
    /\ response' = [response EXCEPT ![w] =
           [code |-> 200, body |-> [status |-> "completed", results |-> results[w]]]]
    /\ pc' = [pc EXCEPT ![w] = "done"]
    /\ UNCHANGED <<stores, data, idx, locals, results, effects, ghost>>

\* ---------------------------------------------------------------- specifications
Step(w) ==
    \/ \E k \in {"none", "list", "dict"} :
          Receive(w, IF k = "none" THEN NoBody
                     ELSE IF k = "list" THEN ListOf(<<>>) ELSE Bare(<<>>))
    \/ \E i \in DOMAIN Items : Receive(w, Bare(Items[i]))
    \/ \E n \in 1..budget : \E f \in [1..n -> DOMAIN Items] :
          Receive(w, ListOf([k \in 1..n |-> Items[f[k]]]))
    \/ NextItem(w)
    \/ FindTask(w)
    \/ FindReplies(w)
    \/ \E outcome \in Outcomes : Extract(w, outcome)
    \/ \E storeOk \in BOOLEAN : Insert(w, storeOk)
    \/ \E sinkOk \in BOOLEAN : Log(w, sinkOk)
    \/ Finish(w)

\* One worker: requests are handled one after the other.
Next == \E w \in SeqWorkers : Step(w)
Spec == Init /\ [][Next]_vars

\* Two workers (the threaded server): the handlers' steps interleave.
NextConc == \E w \in Workers : Step(w)
SpecConc == InitConc /\ [][NextConc]_vars

\* ---------------------------------------------------------------- helpers of the claims
\* Every document of the two collections.
Stored == taskBody \o repliesBody

\* An absent body, an empty array or an empty object.
EmptyPayload(d) ==
    \/ d.kind = "none"
    \/ d.kind \in {"list", "dict"} /\ DOMAIN d.val = {}

\* The item_id the handler reports for a record.
IdOf(rec) == Get(rec, "id", "unknown")

\* The insert_one calls of worker w that the store performed, per collection.
Inserted(w, coll) ==
    SelectSeq(insertLog[w], LAMBDA e : e.ok /\ e.coll = coll)

MergePrecedence ==
    \A w \in SeqWorkers : \A i \in DOMAIN insertLog[w] :
        LET e == insertLog[w][i]
        IN  /\ \A k \in DOMAIN e.extracted : e.doc[k] = e.extracted[k]
            /\ \A k \in (DOMAIN e.item) \ (DOMAIN e.extracted) : e.doc[k] = e.item[k]
            /\ (DOMAIN e.item) \subseteq (DOMAIN e.doc)

\* A record was inserted whose extraction answered `subject` and `id` with values
\* other than the inbound ones.
MergePrecedenceWitness ==
    \E w \in SeqWorkers : \E i \in DOMAIN insertLog[w] :
        LET e == insertLog[w][i]
        IN  /\ e.ok
            /\ {"subject", "id"} \subseteq (DOMAIN e.item) \cap (DOMAIN e.extracted)
            /\ e.item["subject"] # e.extracted["subject"]
            /\ e.item["id"] # e.extracted["id"]
            /\ "body" \in DOMAIN e.doc

WithSubject(key) ==
    SelectSeq(Stored, LAMBDA d :
        "subject" \in DOMAIN d /\ Lower(Strip(d["subject"], Whitespace)) = key)

\* C1: when a record was stored, under its subject as submitted, for an earlier
\* request and a later request submits one record whose subject equals the
\* earlier one ignoring case and its own padding, the later submission is
\* reported skipped and the collections hold exactly one record with that
\* subject.
IdempotentOnSubject ==
    \A w \in SeqWorkers :
        (/\ pc[w] = "done"
         /\ data[w].kind = "list"
         /\ Len(data[w].val) = 1
         /\ \E i \in DOMAIN accepted :
               /\ accepted[i].req < reqno[w]
               /\ accepted[i].stored = accepted[i].subject
               /\ NormSubject(data[w].val[1]) = Lower(accepted[i].subject))
        => /\ response[w].code = 200
           /\ Len(results[w]) = 1
           /\ results[w][1].status = "skipped"
           /\ Len(WithSubject(NormSubject(data[w].val[1]))) = 1

\* ---------------------------------------------------------------- C2
\* The extraction of the item at position e.pos failed: the call raised, the
\* text was no JSON, or the JSON was no object.
ExtractionFailed(e) == e.got # "object"

\* C2: in a batch of more than one record, an item whose extraction fails in
\* any of the three ways is reported with status error, nothing is stored for
\* it, every other item has its result entry, and the request returns 200.
ExtractionFailureIsolated ==
    \A w \in SeqWorkers :
        (pc[w] = "done" /\ data[w].kind = "list" /\ Len(data[w].val) > 1) =>
            \A n \in DOMAIN extractLog[w] :
                LET e == extractLog[w][n]
                IN  ExtractionFailed(e) =>
                      /\ response[w].code = 200
                      /\ \E j \in DOMAIN results[w] :
                            /\ results[w][j].id = IdOf(data[w].val[e.pos])
                            /\ results[w][j].status = "error"
                      /\ \A l \in DOMAIN insertLog[w] : insertLog[w][l].pos # e.pos
                      /\ \A i \in DOMAIN data[w].val :
                            \E j \in DOMAIN results[w] :
                                results[w][j].id = IdOf(data[w].val[i])

\* ---------------------------------------------------------------- C4
\* C4: the results of a 200 response hold one entry per submitted item, in
\* submission order, each with one status among the four.
OneEntryPerItem ==
    \A w \in SeqWorkers :
        (pc[w] = "done" /\ response[w].code = 200) =>
            /\ data[w].kind = "list"
            /\ Len(results[w]) = Len(data[w].val)
            /\ \A i \in DOMAIN results[w] :
                  /\ results[w][i].id = IdOf(data[w].val[i])
                  /\ results[w][i].status \in {"skipped", "success", "error", "warning"}

\* ---------------------------------------------------------------- C8
\* C8: every skipped item has one audit entry of type skip whose reference
\* contains its subject.
AuditOnSkip ==
    \A w \in SeqWorkers :
        LET skips == SelectSeq(results[w], LAMBDA r : r.status = "skipped")
            sent == SelectSeq(audit[w], LAMBDA a :
                        /\ {"log_type", "reference"} \subseteq DOMAIN a.payload
                        /\ a.payload["log_type"] = "skip")
        IN  Len(sent) = Len(skips)

\* ---------------------------------------------------------------- C9
\* C9: once an item that reached the merge is dealt with, one audit emission has
\* been attempted for it, whether its insert succeeded or failed; a failed
\* insert is reported with status error.
AuditWhateverTheWrite ==
    \A w \in SeqWorkers :
        pc[w] \in {"loop", "done"} =>
            /\ Len(audit[w]) = Len(insertLog[w])
            /\ \A l \in DOMAIN insertLog[w] :
                  ~insertLog[w][l].ok =>
                      \E j \in DOMAIN results[w] :
                          /\ results[w][j].id = IdOf(insertLog[w][l].item)
                          /\ results[w][j].status = "error"

\* ---------------------------------------------------------------- C3
\* process_data on the one-element array [R], run to its response from the
\* collections tb and rb, the extraction service, the store and the sink
\* behaving as outcome, storeOk and sinkOk say: what a client and the
\* collaborators observe.
ListRun(R, tb, rb, outcome, storeOk, sinkOk) ==
    LET subj == NormSubject(R)
        id == IdOf(R)
        r == extract_candidate_data(outcome)
        got == IF r.raised THEN "raised" ELSE r.kind
        fd == Merge(R, r.val)
        dest == Destination(subj)
        coll == IF dest = "taskBody" THEN tb ELSE rb
        ok == storeOk /\ ~DuplicateKey(coll, fd)
        log_data == LogPayload(Put(Put(WithId(fd), "log_timestamp", Now),
                                   "collection_type", dest))
        sent == Serialisable(log_data) /\ sinkOk
        answer(res) == [code |-> 200,
                        body |-> [status |-> "completed", results |-> res]]
    IN  IF FindOne(tb, subj) \/ FindOne(rb, subj)
        THEN [response |-> answer(<<[id |-> id, status |-> "skipped",
                                     message |-> "already processed"]>>),
              tb |-> tb, rb |-> rb, extracts |-> <<>>, audit |-> <<>>]
        ELSE IF r.raised
        THEN [response |-> answer(<<[id |-> id, status |-> "error",
                                     message |-> "Extraction error"]>>),
              tb |-> tb, rb |-> rb, extracts |-> <<got>>, audit |-> <<>>]
        ELSE IF r.kind # "object"
        THEN [response |-> [code |-> 500],
              tb |-> tb, rb |-> rb, extracts |-> <<got>>, audit |-> <<>>]
        ELSE IF ~ok
        THEN [response |-> answer(<<[id |-> id, status |-> "error",
                                     message |-> "Insertion error"]>>),
              tb |-> tb, rb |-> rb, extracts |-> <<got>>, audit |-> <<>>]
        ELSE [response |-> answer(
                  <<[id |-> id, status |-> "success", collection |-> dest]>>
                  \o IF sent THEN <<>>
                     ELSE <<[id |-> id, status |-> "warning",
                             message |-> "Logging error"]>>),
              tb |-> IF dest = "taskBody" THEN InsertOne(tb, fd) ELSE tb,
              rb |-> IF dest = "repliesBody" THEN InsertOne(rb, fd) ELSE rb,
              extracts |-> <<got>>,
              audit |-> <<[payload |-> log_data, sent |-> sent]>>]

\* What the request of worker w, once answered, has shown: the response, the
\* collections, the extraction calls and the audit emissions.
Observed(w) ==
    [response |-> response[w], tb |-> taskBody, rb |-> repliesBody,
     extracts |-> [i \in DOMAIN extractLog[w] |-> extractLog[w][i].got],
     audit |-> audit[w]]

\* Some behaviour of the services makes the run on [R] show what worker w showed.
ShownByListRun(w, R) ==
    \E outcome \in Outcomes : \E storeOk \in BOOLEAN : \E sinkOk \in BOOLEAN :
        Observed(w) = ListRun(R, tb0[w], rb0[w], outcome, storeOk, sinkOk)

\* The handler's steps on a one-element array amount to ListRun.
ListRunAgrees ==
    \A w \in SeqWorkers :
        (pc[w] = "done" /\ data[w].kind = "list" /\ Len(data[w].val) = 1) =>
            ShownByListRun(w, data[w].val[1])

\* C3: posting a non-empty record R bare gives the status, the results, the
\* store writes and the audit emissions that posting [R] gives from the same
\* collections with the same behaviour of the services.
BareRecordAsList ==
    \A w \in SeqWorkers :
        (pc[w] = "done" /\ data[w].kind = "dict" /\ ~EmptyPayload(data[w])) =>
            ShownByListRun(w, data[w].val)

\* ---------------------------------------------------------------- C10
\* The collection the record of worker w, which stands before its insert, goes to.
Target(w) == IF Destination(subject[w]) = "taskBody" THEN taskBody ELSE repliesBody

\* Worker w passed the duplicate filter and stands before its insert, while the
\* collection it inserts into has since received a record with its subject.
Overtaken(w) ==
    /\ pc[w] = "insert"
    /\ FindOne(Target(w), subject[w])
    /\ ~DuplicateKey(Target(w), final_data[w])

\* C10: nothing holds back a worker that passed the duplicate filter: when the
\* other request has stored a record with the same subject in the meantime, the
\* insert still goes through and adds a second record.
RaceNotPrevented ==
    \A w \in Workers :
        Overtaken(w) =>
            ENABLED (/\ Insert(w, TRUE)
                     /\ pc'[w] = "log"
                     /\ Len(taskBody') + Len(repliesBody')
                          = Len(taskBody) + Len(repliesBody) + 1)

\* Two requests were handled at the same time and the collections hold two
\* records stored under one subject, which is the key the lookups use.
RaceWitness ==
    \E i, j \in DOMAIN accepted :
        /\ i < j
        /\ accepted[i].req # accepted[j].req
        /\ accepted[i].stored = accepted[j].stored
        /\ accepted[i].stored = Lower(Strip(accepted[i].subject, Whitespace))
        /\ accepted[j].stored = Lower(Strip(accepted[j].subject, Whitespace))
        /\ Len(SelectSeq(Stored, LAMBDA d : d["subject"] = accepted[i].stored)) = 2

\* One request at a time: a subject found by the lookups is stored once.
NoRaceWhenSequential == ~RaceWitness

====
